---- MODULE Spec2Model ----
(***************************************************************************)
(* Model of Clock/Clock.ino: an Arduino sketch that assembles lines of     *)
(* text from the serial port, splits each line at its first two commas     *)
(* into time, date and weekday, and redraws a TFT screen when a line was   *)
(* accepted.                                                               *)
(*                                                                         *)
(* A String is a sequence of one-character strings.  The serial link       *)
(* carries text (the protocol of the sketch's header comment), so the      *)
(* alphabet holds letters, the comma, carriage return and newline; the     *)
(* NUL byte is not text and is left out.                                   *)
(***************************************************************************)
EXTENDS Integers, Sequences, FiniteSets, TLC

\* ------------------------------------------------------------ bounds
\* Characters the serial link delivers in one run.
MaxChars == 7
\* loop() iterations in one run.
MaxLoops == 2

\* ------------------------------------------------------------ alphabet
NL == "\n"
CR == "\r"
COMMA == ","
Letters == {"a", "b"}
Alphabet == Letters \cup {COMMA, CR, NL}

\* ------------------------------------------------------------ state
VARIABLES
  incoming,      \* String incoming: characters of the line being assembled
  nowInfo,       \* DateTimeInfo nowInfo: [time, date, weekday]
  hasValidTime,  \* bool hasValidTime
  needsRedraw,   \* bool needsRedraw
  processed,     \* history: the strings passed to processIncoming, in order
  drawn,         \* history: what each updateDisplay call put on the screen
  pc,            \* "read": inside readSerialMessage's while; "check": at loop()'s if
  nread,         \* history: characters taken with Serial.read()
  nloops,        \* history: loop() iterations finished
  validInCall,   \* history: lines with two commas ended in this readSerialMessage call
  validSinceDraw,\* history: lines with two commas ended since the last updateDisplay
  rawLine,       \* history: characters read since the last newline, '\r' included
  lineFrom,      \* history: the loop() iteration that read the first character of
                 \*          the line now assembled or, with none begun, of the line before
  noCR,          \* the sketch run on the same stream with every '\r' removed
  oneBatch,      \* the sketch run on the same stream inside one readSerialMessage call
  noBad          \* the sketch run on the same stream without its malformed lines

vars == <<incoming, nowInfo, hasValidTime, needsRedraw, processed, drawn, pc,
          nread, nloops, validInCall, validSinceDraw, rawLine, lineFrom, noCR, oneBatch,
          noBad>>

\* ------------------------------------------------------------ String
Min(S) == CHOOSE x \in S : \A y \in S : x <= y

\* String::indexOf(ch, fromIndex), 0-based: -1 when fromIndex is past the end
\* or ch does not occur at or after it.
indexOf(s, ch, fromIndex) ==
  IF fromIndex >= Len(s) THEN -1
  ELSE LET hits == {i \in fromIndex..(Len(s) - 1) : s[i + 1] = ch}
       IN  IF hits = {} THEN -1 ELSE Min(hits)

\* String::substring(left, right), 0-based, right exclusive: the ends are
\* swapped when left > right, the result is empty when left is past the end,
\* and right is clamped to the length.
substring(s, left, right) ==
  LET l == IF left > right THEN right ELSE left
      r == IF left > right THEN left ELSE right
      rr == IF r > Len(s) THEN Len(s) ELSE r
  IN  IF l >= Len(s) THEN <<>> ELSE SubSeq(s, l + 1, rr)

\* String::substring(beginIndex): to the end of the string.
substringFrom(s, beginIndex) == substring(s, beginIndex, Len(s))

\* ------------------------------------------------------------ globals
EmptyInfo == [time |-> <<>>, date |-> <<>>, weekday |-> <<>>]

\* The globals as they are when setup() has returned, with empty histories.
InitGlobals ==
  [incoming |-> <<>>, nowInfo |-> EmptyInfo, hasValidTime |-> FALSE,
   needsRedraw |-> FALSE, processed |-> <<>>, drawn |-> <<>>]

Globals ==
  [incoming |-> incoming, nowInfo |-> nowInfo, hasValidTime |-> hasValidTime,
   needsRedraw |-> needsRedraw, processed |-> processed, drawn |-> drawn]

SetGlobals(g) ==
  /\ incoming' = g.incoming
  /\ nowInfo' = g.nowInfo
  /\ hasValidTime' = g.hasValidTime
  /\ needsRedraw' = g.needsRedraw
  /\ processed' = g.processed
  /\ drawn' = g.drawn

\* ------------------------------------------------------------ processIncoming
processIncoming_FlagEarly(g, msg) ==
  LET firstComma == indexOf(msg, COMMA, 0)
      secondComma == indexOf(msg, COMMA, firstComma + 1)
      called == [g EXCEPT !.processed = Append(@, msg), !.needsRedraw = TRUE]
  IN  IF firstComma = -1 \/ secondComma = -1
      THEN called
      ELSE [called EXCEPT
              !.nowInfo = [time |-> substring(msg, 0, firstComma),
                           date |-> substring(msg, firstComma + 1, secondComma),
                           weekday |-> substringFrom(msg, secondComma + 1)],
              !.hasValidTime = TRUE]

processIncoming_ValidEarly(g, msg) ==
  LET firstComma == indexOf(msg, COMMA, 0)
      secondComma == indexOf(msg, COMMA, firstComma + 1)
      called == [g EXCEPT !.processed = Append(@, msg), !.hasValidTime = TRUE]
  IN  IF firstComma = -1 \/ secondComma = -1
      THEN called
      ELSE [called EXCEPT
              !.nowInfo = [time |-> substring(msg, 0, firstComma),
                           date |-> substring(msg, firstComma + 1, secondComma),
                           weekday |-> substringFrom(msg, secondComma + 1)],
              !.needsRedraw = TRUE]

processIncoming_TimeEarly(g, msg) ==
  LET firstComma == indexOf(msg, COMMA, 0)
      secondComma == indexOf(msg, COMMA, firstComma + 1)
      called == [g EXCEPT !.processed = Append(@, msg)]
  IN  IF firstComma = -1
      THEN called
      ELSE IF secondComma = -1
      THEN [called EXCEPT !.nowInfo.time = substring(msg, 0, firstComma)]
      ELSE [called EXCEPT
              !.nowInfo = [time |-> substring(msg, 0, firstComma),
                           date |-> substring(msg, firstComma + 1, secondComma),
                           weekday |-> substringFrom(msg, secondComma + 1)],
              !.hasValidTime = TRUE,
              !.needsRedraw = TRUE]

processIncoming_DateFromComma(g, msg) ==
  LET firstComma == indexOf(msg, COMMA, 0)
      secondComma == indexOf(msg, COMMA, firstComma + 1)
      called == [g EXCEPT !.processed = Append(@, msg)]
  IN  IF firstComma = -1 \/ secondComma = -1
      THEN called
      ELSE [called EXCEPT
              !.nowInfo = [time |-> substring(msg, 0, firstComma),
                           date |-> substring(msg, firstComma, secondComma),
                           weekday |-> substringFrom(msg, secondComma + 1)],
              !.hasValidTime = TRUE,
              !.needsRedraw = TRUE]

\* processIncoming(msg): a line without two commas is reported and dropped;
\* otherwise the three fields, hasValidTime and needsRedraw are set.
processIncoming(g, msg) ==
  LET firstComma == indexOf(msg, COMMA, 0)
      secondComma == indexOf(msg, COMMA, firstComma + 1)
      called == [g EXCEPT !.processed = Append(@, msg)]
  IN  IF firstComma = -1 \/ secondComma = -1
      THEN called
      ELSE [called EXCEPT
              !.nowInfo = [time |-> substring(msg, 0, firstComma),
                           date |-> substring(msg, firstComma + 1, secondComma),
                           weekday |-> substringFrom(msg, secondComma + 1)],
              !.hasValidTime = TRUE,
              !.needsRedraw = TRUE]

\* ------------------------------------------------------------ readSerialMessage
readChar_KeepCR(g, c) ==
  IF c = NL
  THEN [processIncoming(g, g.incoming) EXCEPT !.incoming = <<>>]
  ELSE [g EXCEPT !.incoming = Append(@, c)]

readChar_KeepBadLine(g, c) ==
  IF c = NL
  THEN LET p == processIncoming(g, g.incoming)
           firstComma == indexOf(g.incoming, COMMA, 0)
           secondComma == indexOf(g.incoming, COMMA, firstComma + 1)
       IN  IF firstComma = -1 \/ secondComma = -1 THEN p
           ELSE [p EXCEPT !.incoming = <<>>]
  ELSE IF c # CR
  THEN [g EXCEPT !.incoming = Append(@, c)]
  ELSE g

\* The body of readSerialMessage's while loop for one character c.
readChar(g, c) ==
  IF c = NL
  THEN [processIncoming(g, g.incoming) EXCEPT !.incoming = <<>>]
  ELSE IF c # CR
  THEN [g EXCEPT !.incoming = Append(@, c)]
  ELSE g

\* readSerialMessage() when the characters of batch are waiting: the while
\* loop takes them one by one.
RECURSIVE readSerialMessage(_, _)
readSerialMessage(g, batch) ==
  IF batch = <<>> THEN g
  ELSE readSerialMessage(readChar(g, Head(batch)), Tail(batch))

\* ------------------------------------------------------------ loop, updateDisplay
\* updateDisplay(): the screen is cleared and shows, top to bottom, the
\* weekday (y = 40), the date (y = 100) and the time (y = 180).
updateDisplay(info) == <<info.weekday, info.date, info.time>>

redrawWanted_NoFlag(g) == g.hasValidTime

\* The condition of loop()'s if.
redrawWanted(g) == g.needsRedraw /\ g.hasValidTime

loopRedraw_NoReset(g) ==
  IF redrawWanted(g)
  THEN [g EXCEPT !.drawn = Append(@, updateDisplay(g.nowInfo))]
  ELSE g

\* loop() after readSerialMessage has returned.
loopRedraw(g) ==
  IF redrawWanted(g)
  THEN [g EXCEPT !.drawn = Append(@, updateDisplay(g.nowInfo)),
                 !.needsRedraw = FALSE]
  ELSE g

\* ------------------------------------------------------------ what a line is
NumCommas(s) == Cardinality({i \in 1..Len(s) : s[i] = COMMA})
\* A line missing one or both delimiters.
Malformed(s) == NumCommas(s) < 2

\* ------------------------------------------------------------ behaviour
Init ==
  /\ incoming = InitGlobals.incoming
  /\ nowInfo = InitGlobals.nowInfo
  /\ hasValidTime = InitGlobals.hasValidTime
  /\ needsRedraw = InitGlobals.needsRedraw
  /\ processed = <<>>
  /\ drawn = <<>>
  /\ pc = "read"
  /\ nread = 0
  /\ nloops = 0
  /\ validInCall = 0
  /\ validSinceDraw = 0
  /\ rawLine = <<>>
  /\ lineFrom = 0
  /\ noCR = InitGlobals
  /\ oneBatch = InitGlobals
  /\ noBad = InitGlobals

\* Serial.available() > 0 and Serial.read() returns c.
ReadChar(c) ==
  /\ pc = "read"
  /\ nread < MaxChars
  /\ SetGlobals(readChar(Globals, c))
  /\ nread' = nread + 1
  /\ LET ended == c = NL /\ ~Malformed(incoming)
     IN  /\ validInCall' = IF ended THEN validInCall + 1 ELSE validInCall
         /\ validSinceDraw' = IF ended THEN validSinceDraw + 1 ELSE validSinceDraw
  /\ rawLine' = IF c = NL THEN <<>> ELSE Append(rawLine, c)
  /\ lineFrom' = IF rawLine = <<>> THEN nloops ELSE lineFrom
  /\ noCR' = IF c = CR THEN noCR ELSE readChar(noCR, c)
  /\ oneBatch' = readChar(oneBatch, c)
  /\ noBad' = IF c = NL /\ ~Malformed(rawLine)
              THEN readSerialMessage(noBad, Append(rawLine, NL))
              ELSE noBad
  /\ UNCHANGED <<pc, nloops>>

ReadDone_LocalBuffer ==
  /\ pc = "read"
  /\ pc' = "check"
  /\ incoming' = <<>>
  /\ UNCHANGED <<nowInfo, hasValidTime, needsRedraw, processed, drawn,
                 nread, nloops, validInCall, validSinceDraw, rawLine, lineFrom,
                 noCR, oneBatch, noBad>>

\* Serial.available() is 0: readSerialMessage returns with the globals as
\* they are.
ReadDone ==
  /\ pc = "read"
  /\ pc' = "check"
  /\ UNCHANGED <<incoming, nowInfo, hasValidTime, needsRedraw, processed, drawn,
                 nread, nloops, validInCall, validSinceDraw, rawLine, lineFrom,
                 noCR, oneBatch, noBad>>

\* loop()'s if, then the next iteration starts.
LoopCheck ==
  /\ pc = "check"
  /\ nloops < MaxLoops
  /\ SetGlobals(loopRedraw(Globals))
  /\ noCR' = loopRedraw(noCR)
  /\ pc' = "read"
  /\ nloops' = nloops + 1
  /\ validInCall' = 0
  /\ validSinceDraw' = IF redrawWanted(Globals) THEN 0 ELSE validSinceDraw
  /\ UNCHANGED <<nread, rawLine, lineFrom, oneBatch, noBad>>

Next ==
  \/ \E c \in Alphabet : ReadChar(c)
  \/ ReadDone
  \/ LoopCheck

Spec == Init /\ [][Next]_vars

\* ------------------------------------------------------------ reading a line
\* The positions of s that lie in its k-th comma-delimited segment (k = 1 for
\* the part before the first comma).
SegmentAt(s, k) ==
  {i \in 1..Len(s) :
     /\ s[i] # COMMA
     /\ Cardinality({j \in 1..(i - 1) : s[j] = COMMA}) = k - 1}

\* The k-th comma-delimited segment of s (empty when two commas are adjacent
\* or s has fewer than k segments).
Segment(s, k) ==
  LET at == SegmentAt(s, k)
  IN  [n \in 1..Cardinality(at) |-> s[Min(at) + n - 1]]

\* Everything of s that follows its second comma.
AfterSecondComma(s) ==
  LET at == {i \in 1..Len(s) : Cardinality({j \in 1..(i - 1) : s[j] = COMMA}) >= 2}
  IN  [n \in 1..Cardinality(at) |-> s[Min(at) + n - 1]]

\* The record a line with both delimiters stands for.
FieldsOf(s) ==
  [time |-> Segment(s, 1), date |-> Segment(s, 2), weekday |-> AfterSecondComma(s)]

Last(q) == q[Len(q)]

\* The indices of the processed lines that had both delimiters.
ValidAt == {i \in 1..Len(processed) : ~Malformed(processed[i])}
Max(S) == CHOOSE x \in S : \A y \in S : x >= y

\* This step is a call of processIncoming (a newline was read).
LineEnded == Len(processed') = Len(processed) + 1
\* This step is a call of updateDisplay.
Redrawn == Len(drawn') = Len(drawn) + 1
\* This step reads one character.
CharRead == nread' = nread + 1
\* This step ends an iteration of loop().
IterationEnded == nloops' = nloops + 1

\* ------------------------------------------------------------ claims

\* C1: when processIncoming is called on a line with exactly its two
\* delimiters, nowInfo.time, nowInfo.date and nowInfo.weekday become the
\* first, second and third comma-delimited segments of that line, and
\* needsRedraw is true.
C1_WellFormedLineIsSplit ==
  [][(LineEnded /\ NumCommas(Last(processed')) = 2) =>
       /\ nowInfo'.time = Segment(Last(processed'), 1)
       /\ nowInfo'.date = Segment(Last(processed'), 2)
       /\ nowInfo'.weekday = Segment(Last(processed'), 3)
       /\ needsRedraw']_vars

C1_Witness ==
  /\ processed # <<>>
  /\ Last(processed) = <<"a", "b", COMMA, "b", COMMA, "a">>
  /\ nowInfo = [time |-> <<"a", "b">>, date |-> <<"b">>, weekday |-> <<"a">>]
  /\ needsRedraw

\* C2: a call of processIncoming on a line with fewer than two commas leaves
\* nowInfo, hasValidTime and needsRedraw as they were, and an iteration of
\* loop() in which only such lines ended does not call updateDisplay.
C2_MalformedLineChangesNothing ==
  [][/\ (LineEnded /\ Malformed(Last(processed'))) =>
          UNCHANGED <<nowInfo, hasValidTime, needsRedraw, drawn>>
     /\ (IterationEnded /\ validInCall = 0) => ~Redrawn]_vars

C2_Witness ==
  /\ Len(processed) = 2
  /\ ~Malformed(processed[1])
  /\ Malformed(processed[2])
  /\ processed[2] # <<>>
  /\ nowInfo = FieldsOf(processed[1])
  /\ hasValidTime
  /\ needsRedraw

\* C3: in every state the three fields of nowInfo come from one line: all
\* three are empty while no line with both delimiters has been processed, and
\* otherwise they are the time, date and weekday parts of the latest such line.
C3_FieldsFromOneLine ==
  IF ValidAt = {}
  THEN nowInfo = EmptyInfo
  ELSE nowInfo = FieldsOf(processed[Max(ValidAt)])

C3_Witness ==
  /\ Cardinality(ValidAt) = 2
  /\ Len(processed) = 2
  /\ FieldsOf(processed[1]) # FieldsOf(processed[2])
  /\ nowInfo = FieldsOf(processed[2])

\* C4: every call of updateDisplay comes after at least one line with both
\* delimiters processed since the previous call (or since start-up), and an
\* iteration of loop() in which no such line ended does not call it.
C4_RedrawOnlyOnNewData ==
  [][/\ Redrawn => (validSinceDraw >= 1 /\ validInCall >= 1)
     /\ (IterationEnded /\ validInCall = 0) => UNCHANGED drawn]_vars

C4_Witness ==
  /\ Len(drawn) = 1
  /\ nloops = 2
  /\ Cardinality(ValidAt) = 1
  /\ Len(processed) = 2

\* C5: when a newline has ended a line, incoming is empty, and nowInfo and
\* hasValidTime are what they are when the malformed lines are left out of
\* the stream.
C5_MalformedLineLeavesNoTrace ==
  /\ rawLine = <<>> => incoming = <<>>
  /\ nowInfo = noBad.nowInfo
  /\ hasValidTime = noBad.hasValidTime
  /\ Len(noBad.processed) = Cardinality(ValidAt)

C5_Witness ==
  /\ Len(processed) = 2
  /\ processed[1] = <<"a", COMMA>>
  /\ processed[2] = <<"b", COMMA, COMMA>>
  /\ nowInfo = [time |-> <<"b">>, date |-> <<>>, weekday |-> <<>>]
  /\ incoming = <<>>

\* C6: an iteration of loop() ends with needsRedraw false; when lines with
\* both delimiters ended in its readSerialMessage call, however many, it
\* calls updateDisplay exactly once, and once a valid line was ever processed
\* the screen shows the current nowInfo at the end of each iteration.
C6_OneRedrawPerIteration ==
  [][IterationEnded =>
       /\ ~needsRedraw'
       /\ validInCall >= 1 => drawn' = Append(drawn, updateDisplay(nowInfo'))
       /\ hasValidTime' =>
            (drawn' # <<>> /\ Last(drawn') = <<nowInfo'.weekday, nowInfo'.date, nowInfo'.time>>)]_vars

C6_Witness ==
  /\ nloops = 1
  /\ pc = "read"
  /\ Len(processed) = 2
  /\ Cardinality(ValidAt) = 2
  /\ FieldsOf(processed[1]) # FieldsOf(processed[2])
  /\ drawn = <<updateDisplay(FieldsOf(processed[2]))>>
  /\ ~needsRedraw

\* C7: the run equals the run on the stream with every '\r' removed, in the
\* lines passed to processIncoming, in nowInfo, the flags and the redraws, and
\* incoming never holds '\r' or '\n'.
C7_CarriageReturnsIgnored ==
  /\ noCR = Globals
  /\ \A i \in 1..Len(incoming) : incoming[i] \notin {CR, NL}

C7_Witness ==
  /\ rawLine = <<CR>>
  /\ nread = 7
  /\ processed = << <<"a", "b", COMMA, COMMA>> >>
  /\ nowInfo.time = <<"a", "b">>
  /\ Len(drawn) = 1

\* C8: hasValidTime is true exactly when a line with both delimiters has been
\* processed, it is never reset, and updateDisplay is not called while it is
\* false.
C8_HasValidTime ==
  /\ [](/\ hasValidTime <=> ValidAt # {}
        /\ ~hasValidTime => drawn = <<>>)
  /\ [][hasValidTime => hasValidTime']_vars

C8_Witness ==
  /\ Len(processed) = 3
  /\ ValidAt = {2}
  /\ processed[1] # <<>>
  /\ nloops = 2
  /\ hasValidTime
  /\ Len(drawn) = 1

\* C9: however the stream is cut into the batches of successive
\* readSerialMessage calls, the strings passed to processIncoming, nowInfo and
\* the partial line are those of the run that reads the stream in one call,
\* and reading a character that is not a newline changes only incoming.
C9_BatchingDoesNotMatter ==
  /\ [](/\ processed = oneBatch.processed
        /\ nowInfo = oneBatch.nowInfo
        /\ incoming = oneBatch.incoming
        /\ hasValidTime = oneBatch.hasValidTime)
  /\ [][(CharRead /\ ~LineEnded) =>
          UNCHANGED <<nowInfo, hasValidTime, needsRedraw, processed, drawn>>]_vars

C9_Witness ==
  /\ lineFrom = 0
  /\ nloops = 2
  /\ rawLine = <<>>
  /\ processed = << <<"a", COMMA, "b", COMMA, "a">> >>
  /\ nowInfo = [time |-> <<"a">>, date |-> <<"b">>, weekday |-> <<"a">>]
  /\ needsRedraw
  /\ drawn = <<>>

====
